---- MODULE Spec2Model ----
(***************************************************************************)
(* Model of the two cores of youtube-chat-ai:                              *)
(*   - the channel ingestion endpoint  POST /api/youtube/channel           *)
(*     (server/index.js), one run of the handler, one step per await;      *)
(*   - the function-calling loop chatWithTools (services/gemini).          *)
(* Synchronous JavaScript between two awaits is one atomic step.           *)
(***************************************************************************)
EXTENDS Integers, Sequences, FiniteSets, TLC

\* ------------------------------------------------------------------ bounds
\* longest content list of a container of the channel page
MaxEntries == 3

\* ------------------------------------------------------- JavaScript values
\* A JavaScript value: t is its type tag, s the characters of a string,
\* n the value of a (integral) number.
Undef == [t |-> "undef", s |-> <<>>, n |-> 0]
Null == [t |-> "null", s |-> <<>>, n |-> 0]
NaN == [t |-> "nan", s |-> <<>>, n |-> 0]
Num(n) == [t |-> "num", s |-> <<>>, n |-> n]
Str(s) == [t |-> "str", s |-> s, n |-> 0]

IsDigit(c) == c \in {"0", "1", "2", "3", "4", "5", "6", "7", "8", "9"}

DigitVal(c) ==
  CASE c = "0" -> 0 [] c = "1" -> 1 [] c = "2" -> 2 [] c = "3" -> 3
    [] c = "4" -> 4 [] c = "5" -> 5 [] c = "6" -> 6 [] c = "7" -> 7
    [] c = "8" -> 8 [] c = "9" -> 9

RECURSIVE SkipWs(_)
SkipWs(s) == IF s # <<>> /\ Head(s) = " " THEN SkipWs(Tail(s)) ELSE s

RECURSIVE AccDigits(_, _)
AccDigits(s, acc) ==
  IF s = <<>> \/ ~IsDigit(Head(s)) THEN acc
  ELSE AccDigits(Tail(s), 10 * acc + DigitVal(Head(s)))

\* parseInt(string, 10): leading white space, an optional sign, then the
\* longest prefix of digits; NaN when there is no digit.
ParseIntStr(s) ==
  LET t == SkipWs(s)
      neg == t # <<>> /\ Head(t) = "-"
      u == IF t # <<>> /\ Head(t) \in {"-", "+"} THEN Tail(t) ELSE t
  IN IF u = <<>> \/ ~IsDigit(Head(u)) THEN NaN
     ELSE Num((IF neg THEN -1 ELSE 1) * AccDigits(u, 0))

\* parseInt(v, 10) of any value: the value is converted to a string first.
ParseInt(v) ==
  CASE v.t = "str" -> ParseIntStr(v.s)
    [] v.t = "num" -> Num(v.n)
    [] OTHER -> NaN

\* Number(v)
ToNumber(v) ==
  CASE v.t = "num" -> v
    [] v.t = "null" -> Num(0)
    [] v.t = "str" ->
         LET t == SelectSeq(v.s, LAMBDA c : c # " ")
         IN IF t = <<>> THEN Num(0)
            ELSE IF \A k \in 1..Len(t) : IsDigit(t[k]) THEN Num(AccDigits(t, 0))
            ELSE IF Len(t) > 1 /\ t[1] = "-" /\ \A k \in 2..Len(t) : IsDigit(t[k])
                 THEN Num(-AccDigits(Tail(t), 0))
            ELSE NaN
    [] OTHER -> NaN

\* JavaScript truthiness
Truthy(v) ==
  CASE v.t = "num" -> v.n # 0
    [] v.t = "str" -> v.s # <<>>
    [] OTHER -> FALSE

\* a test of the value in place of the test against null
TruthyOnly(v) == Truthy(v)

\* v != null
NotNullish(v) == v.t \notin {"undef", "null"}

\* countText.replace(/,/g, '')
StripCommas(s) == SelectSeq(s, LAMBDA c : c # ",")

\* a serializer that writes NaN as it is
JsonNumberVerbatim(v) == v

\* JSON.stringify of a number-or-null field as the client parses it back:
\* JSON has no NaN, JSON.stringify writes null for it.
JsonNumber(v) == IF v.t = "nan" THEN Null ELSE v

Min(a, b) == IF a < b THEN a ELSE b
Max(a, b) == IF a > b THEN a ELSE b

\* --------------------------------------------------------- the channel page
\* A content item of a container: -1 is an item without a video renderer,
\* 0 a video renderer without videoId, k > 0 a video renderer with videoId k.
NoRenderer == -1
NoId == 0

\* sequences of length at most n over S
SeqsUpTo(S, n) == UNION {[1..k -> S] : k \in 0..n}

\* items of a container from its shape; ids are base + position, so that the
\* ids of a page are pairwise distinct and tell container and position
WithIds(shape, base) ==
  [p \in DOMAIN shape |-> IF shape[p] = 1 THEN base + p ELSE shape[p]]

Tab(tabR, grid, sections) ==
  [tabRenderer |-> tabR, richGrid |-> grid, sectionList |-> sections]

\* pages with one tab holding a grid of every shape
GridTabs ==
  {<<Tab(TRUE, WithIds(sh, 10), <<>>)>> : sh \in SeqsUpTo({NoRenderer, NoId, 1}, MaxEntries)}

\* pages exercising tabs without renderer, the legacy sectioned list, and both
LegacyTabs ==
  { <<>>,
    <<Tab(FALSE, <<11>>, <<>>), Tab(TRUE, <<21, 22>>, <<>>)>>,
    <<Tab(TRUE, <<>>, << <<>>, <<31, NoRenderer, 32>> >>)>>,
    <<Tab(TRUE, <<NoRenderer>>, << <<41>> >>)>>,
    <<Tab(TRUE, <<51, 52>>, << <<61>> >>)>>,
    <<Tab(TRUE, <<>>, << <<NoRenderer>> >>), Tab(TRUE, <<>>, << <<NoId, 71>> >>)>>,
    <<Tab(TRUE, <<NoRenderer>>, << <<>> >>), Tab(TRUE, <<>>, <<>>)>> }

\* the short content lists of a container: none, one item without video
\* renderer, one video with id base + 1
ShortLists(base) == {<<>>, <<NoRenderer>>, <<base + 1>>}

\* the tabs numbered t with a short grid and at most one short section
ShortTabs(t) ==
  {Tab(tabR, grid, sections) :
     tabR \in BOOLEAN,
     grid \in ShortLists(100 * t + 10),
     sections \in {<<>>} \cup {<<sec>> : sec \in ShortLists(100 * t + 20)}}

\* pages of one or two short tabs
ShortTabPages ==
  {<<t1>> : t1 \in ShortTabs(1)} \cup {<<t1, t2>> : t1 \in ShortTabs(1), t2 \in ShortTabs(2)}

\* the HTML of the channel page: whether one of the two ytInitialData patterns
\* matches, whether the matched text parses as JSON, and the tabs of the blob
Pages ==
  {[ytInitialData |-> "absent", tabs |-> <<>>],
   [ytInitialData |-> "malformed", tabs |-> <<>>]}
  \cup {[ytInitialData |-> "object", tabs |-> t] : t \in GridTabs \cup LegacyTabs \cup ShortTabPages}

\* richGrid.contents.filter(videoRenderer).map(...), and the same for
\* gridVideoRenderer items
RenderersOf(items) == SelectSeq(items, LAMBDA c : c # NoRenderer)

RECURSIVE ScanSections(_)
ScanSections(sections) ==
  IF sections = <<>> THEN <<>>
  ELSE LET r == RenderersOf(Head(sections))
       IN IF Len(r) > 0 THEN r ELSE ScanSections(Tail(sections))

\* a navigation that tries the legacy list of a tab before its grid
RECURSIVE NavigateLegacyFirst(_)
NavigateLegacyFirst(tabs) ==
  IF tabs = <<>> THEN <<>>
  ELSE LET tab == Head(tabs)
       IN IF ~tab.tabRenderer THEN NavigateLegacyFirst(Tail(tabs))
          ELSE LET sl == ScanSections(tab.sectionList)
               IN IF Len(sl) > 0 THEN sl
                  ELSE LET g == RenderersOf(tab.richGrid)
                       IN IF Len(g) > 0 THEN g ELSE NavigateLegacyFirst(Tail(tabs))

\* a navigation that gives up at the first tab whose containers are empty
RECURSIVE NavigateFirstTabOnly(_)
NavigateFirstTabOnly(tabs) ==
  IF tabs = <<>> THEN <<>>
  ELSE LET tab == Head(tabs)
       IN IF ~tab.tabRenderer THEN NavigateFirstTabOnly(Tail(tabs))
          ELSE LET g == RenderersOf(tab.richGrid)
               IN IF Len(g) > 0 THEN g ELSE ScanSections(tab.sectionList)

RECURSIVE Navigate(_)
Navigate(tabs) ==
  IF tabs = <<>> THEN <<>>
  ELSE LET tab == Head(tabs)
       IN IF ~tab.tabRenderer THEN Navigate(Tail(tabs))
          ELSE LET g == IF Len(tab.richGrid) > 0 THEN RenderersOf(tab.richGrid) ELSE <<>>
               IN IF Len(g) > 0 THEN g
                  ELSE LET sl == ScanSections(tab.sectionList)
                       IN IF Len(sl) > 0 THEN sl ELSE Navigate(Tail(tabs))

\* ------------------------------------------------------------- the request
DefaultMaxVideos == 10
FallbackMaxVideos == 10

MaxVideosInputs ==
  {Undef, Null, Num(-1), Num(0), Num(1), Num(2), Num(3), Num(200),
   Str(<<"2">>), Str(<<"a">>)}

Requests == [url : {"absent", "string", "nonstring"}, maxVideos : MaxVideosInputs]

\* const { url, maxVideos = 10 } = req.body
MaxVideosOf(body) ==
  IF body.maxVideos.t = "undef" THEN Num(DefaultMaxVideos) ELSE body.maxVideos

\* Math.min(videoRenderers.length, Math.max(1, Number(maxVideos) || 10))
Limit(len, maxVideos) ==
  LET n == ToNumber(maxVideos)
      m == IF Truthy(n) THEN n.n ELSE FallbackMaxVideos
  IN Min(len, Max(1, m))

\* ---------------------------------------------------------------- events
\* Math.round(((i + 1) / limit) * 100)
Percent(current, total) == (200 * current + total) \div (2 * total)

ProgressEvent(current, total) ==
  [type |-> "progress", current |-> current, total |-> total,
   percent |-> Percent(current, total)]

\* a record as JSON.stringify writes it
JsonRecord(v) ==
  [v EXCEPT !.view_count = JsonNumber(@), !.like_count = JsonNumber(@),
            !.comment_count = JsonNumber(@)]

DoneEvent(vids) ==
  [type |-> "done", videos |-> [k \in DOMAIN vids |-> JsonRecord(vids[k])]]

ErrorEvent(msg) == [type |-> "error", message |-> msg]

FetchFailedMsg(status) ==
  IF status = 404 THEN "Failed to fetch channel page: HTTP 404"
  ELSE "Failed to fetch channel page: HTTP 500"
CouldNotExtractMsg ==
  "Could not extract ytInitialData. The channel may not exist or YouTube blocked the request."
ParseFailedMsg == "Failed to parse ytInitialData JSON."
NoVideosMsg ==
  "No videos found. Make sure the URL points to a public YouTube channel (e.g. https://www.youtube.com/@channelname)."
UrlTypeErrorMsg == "url.replace is not a function"
NetworkErrorMsg == "fetch failed"

IsTerminal(e) == e.type \in {"done", "error"}

\* ------------------------------------------------------ per-item enrichment
\* step 1: the record built from the renderer before any enrichment
Step1(videoId) ==
  [video_id |-> videoId,
   title |-> "title1",
   video_url |-> <<"https://www.youtube.com/watch?v=", videoId>>,
   thumbnail |-> "thumb1",
   duration |-> "3:21",
   published_time_text |-> "1 day ago",
   view_count_text |-> "10 views",
   description |-> "",
   release_date |-> "",
   view_count |-> Null,
   like_count |-> Null,
   comment_count |-> Null,
   transcript |-> ""]

\* a || b on strings
OrElse(a, b) == IF a # "" THEN a ELSE b

\* what ytdl.getInfo may produce: a rejection, or an info object with or
\* without videoDetails, its counts and the header texts of its panels
Info(details, title, viewCount, likes, commentCount, panels) ==
  [resolves |-> TRUE, videoDetails |-> details, title |-> title,
   shortDescription |-> "desc2", publishDate |-> "2024-01-01", thumbnail |-> "thumb2",
   viewCount |-> viewCount, likes |-> likes, commentCount |-> commentCount,
   panels |-> panels]

InfoRejected == [Info(FALSE, "", Undef, Undef, Undef, <<>>) EXCEPT !.resolves = FALSE]

InfoResults ==
  { InfoRejected,
    Info(FALSE, "", Undef, Undef, Undef, <<>>),
    Info(TRUE, "title2", Str(<<"1", "2">>), Num(3), Str(<<"1", ",", "2", "3", "4">>), <<>>),
    Info(TRUE, "", Str(<<"a">>), Undef, Str(<<"a">>), <<>>),
    Info(TRUE, "title2", Str(<<"0">>), Num(0), Undef,
         <<Undef, Str(<<"a">>), Str(<<"1", ",", "2", "3", "4">>), Str(<<"7">>)>>),
    Info(TRUE, "title2", Undef, Null, Undef, <<>>),
    Info(TRUE, "title2", Num(0), Num(5), Undef, <<Num(5)>>) }

\* the scan of the engagement panels: the first header text that parses wins;
\* a truthy header text that is no string makes countText.replace throw
RECURSIVE PanelScan(_)
PanelScan(panels) ==
  IF panels = <<>> THEN [found |-> FALSE, n |-> Null, threw |-> FALSE]
  ELSE LET countText == Head(panels)
       IN IF ~Truthy(countText) THEN PanelScan(Tail(panels))
          ELSE IF countText.t # "str" THEN [found |-> FALSE, n |-> Null, threw |-> TRUE]
          ELSE LET n == ParseInt(Str(StripCommas(countText.s)))
               IN IF n.t # "nan" THEN [found |-> TRUE, n |-> n, threw |-> FALSE]
                  ELSE PanelScan(Tail(panels))

\* the statements between the resolution of getInfo and the transcript step
EnrichFromInfo(vd, info) ==
  IF ~info.videoDetails THEN [vd |-> vd, threw |-> TRUE]
  ELSE
    LET vd1 == [vd EXCEPT
                  !.title = OrElse(info.title, vd.title),
                  !.description = info.shortDescription,
                  !.release_date = info.publishDate,
                  !.view_count = IF Truthy(info.viewCount) THEN ParseInt(info.viewCount) ELSE Null,
                  !.like_count = IF NotNullish(info.likes) THEN ParseInt(info.likes) ELSE Null,
                  !.thumbnail = OrElse(info.thumbnail, vd.thumbnail)]
    IN IF NotNullish(info.commentCount)
       THEN [vd |-> [vd1 EXCEPT !.comment_count = ParseInt(info.commentCount)], threw |-> FALSE]
       ELSE LET ps == PanelScan(info.panels)
            IN [vd |-> IF ps.found THEN [vd1 EXCEPT !.comment_count = ps.n] ELSE vd1,
                threw |-> ps.threw]

\* outcomes of the subtitle command and of the subtitle file afterwards
ExecOutcomes == {"ok", "error", "timeout"}
FileOutcomes == {"missing", "unreadable", "badjson", "notext", "text"}

\* a read that takes any existing file for captions
TranscriptFromAnyFile(vd, file) ==
  IF file # "missing" THEN [vd EXCEPT !.transcript = "captions"] ELSE vd

\* the transcript the record gets from the subtitle file
TranscriptFrom(vd, file) ==
  IF file = "text" THEN [vd EXCEPT !.transcript = "captions"] ELSE vd

\* ------------------------------------------------------------------- state
VARIABLES
  body,            \* req.body
  pc,              \* position of the handler
  httpStatus,      \* status of a plain (non-stream) response, 0 if none
  events,          \* frames written to the response, in order
  pageStatus,      \* pageResponse.status, 0 before the response
  html,            \* the page read from the response
  calls,           \* how often each step of the run was performed
  videoRenderers,  \* result of the navigation
  limit,
  i,               \* loop index
  videoData,       \* record of the item being enriched
  videos,          \* records pushed so far
  info,            \* what the last ytdl.getInfo settled with
  sub,             \* how yt-dlp ended and what it left, until the file is read
  tmpdir           \* the ids v whose file yt_sub_<v>.en.json3 exists in
                   \* os.tmpdir(), shared by all runs of the server

ivars == <<body, pc, httpStatus, events, pageStatus, html, calls, videoRenderers, limit, i,
           videoData, videos, info, sub>>

\* path.join(os.tmpdir(), `yt_sub_${videoId}`) + '.en.json3': the file is
\* named by the video id alone
SubFile(r, videoId) == videoId

\* no subtitle command has ended without its file being looked at
NoSub == [err |-> "", file |-> ""]

NoPage == [ytInitialData |-> "", tabs |-> <<>>]

Steps == {"fetch", "extract", "parse", "navigate", "getInfo", "execFile"}

IngestInit ==
  /\ body \in Requests
  /\ pc = "recv"
  /\ httpStatus = 0
  /\ events = <<>>
  /\ pageStatus = 0
  /\ html = NoPage
  /\ calls = [st \in Steps |-> 0]
  /\ videoRenderers = <<>>
  /\ limit = 0
  /\ i = 0
  /\ videoData = Step1(NoId)
  /\ videos = <<>>
  /\ info = InfoRejected
  /\ sub = NoSub

Did(cs, st) == [cs EXCEPT ![st] = @ + 1]

\* a catch that reports the error and lets the handler go on
SendErrorAndGoOn(msg) ==
  /\ events' = Append(events, ErrorEvent(msg))
  /\ pc' = pc

\* catch (err) { send({ type: 'error', message }); res.end(); }
SendError(msg) ==
  /\ events' = Append(events, ErrorEvent(msg))
  /\ pc' = "ended"

\* a loop without the skip of the renderers without id
NextIndexNoSkip(vrs, lim, from) == from

\* first index from `from` on, below lim, whose renderer has a videoId
RECURSIVE NextIndex(_, _, _)
NextIndex(vrs, lim, from) ==
  IF from >= lim THEN from
  ELSE IF vrs[from + 1] # NoId THEN from
  ELSE NextIndex(vrs, lim, from + 1)

\* a loop that announces the next two items at once
LoopFromFanOut(vrs, lim, vids, from) ==
  LET j == NextIndex(vrs, lim, from)
  IN /\ i' = j
     /\ videos' = vids
     /\ IF j < lim
        THEN /\ events' = events \o <<ProgressEvent(j + 1, lim),
                                      ProgressEvent(Min(j + 2, lim), lim)>>
             /\ videoData' = Step1(vrs[j + 1])
             /\ pc' = "getInfo"
        ELSE /\ events' = Append(events, DoneEvent(vids))
             /\ videoData' = videoData
             /\ pc' = "ended"

\* the loop from index `from` up to its next await: skip the renderers
\* without id, then either send the progress event of the next item and build
\* its record, or leave the loop and send done
LoopFrom(vrs, lim, vids, from) ==
  LET j == NextIndex(vrs, lim, from)
  IN /\ i' = j
     /\ videos' = vids
     /\ IF j < lim
        THEN /\ events' = Append(events, ProgressEvent(j + 1, lim))
             /\ videoData' = Step1(vrs[j + 1])
             /\ pc' = "getInfo"
        ELSE /\ events' = Append(events, DoneEvent(vids))
             /\ videoData' = videoData
             /\ pc' = "ended"

\* videos.push only for the items whose info fetch succeeded
PushIfEnriched(vids, vd) == IF vd.description = "" THEN vids ELSE Append(vids, vd)

\* videos.push(videoData)
Push(vids, vd) == Append(vids, vd)

\* an info failure that is thrown on to the handler's catch
RethrowInfoFailure(vd) ==
  /\ SendError("ytdl info failed")
  /\ UNCHANGED <<i, videoData, videos>>

\* catch (e) { console.warn(...) } of the info fetch, then videos.push and
\* the loop on
CatchInfoFailure(vd) ==
  LoopFrom(videoRenderers, limit, Push(videos, vd), i + 1)

\* a status check that lets every response pass
AnyStatusOk(status) == TRUE

\* pageResponse.ok
ResponseOk(status) == status = 200

\* an extraction without the check of the match: JSON.parse fails instead
ExtractionErrorUnchecked(kind) == ParseFailedMsg

\* the error of the extraction of a page without (parsable) ytInitialData
ExtractionError(kind) ==
  IF kind = "absent" THEN CouldNotExtractMsg ELSE ParseFailedMsg

\* the handler up to the page fetch
Receive ==
  /\ pc = "recv"
  /\ IF body.url = "absent"
     THEN /\ httpStatus' = 400
          /\ pc' = "rejected"
          /\ UNCHANGED events
     ELSE IF body.url = "nonstring"
     THEN /\ SendError(UrlTypeErrorMsg)
          /\ UNCHANGED httpStatus
     ELSE /\ pc' = "fetch"
          /\ UNCHANGED <<httpStatus, events>>
  /\ UNCHANGED <<body, pageStatus, html, calls, videoRenderers, limit, i, videoData, videos,
                 info, sub, tmpdir>>

\* await fetch(channelUrl): a rejection, or a response with a status
PageFetch ==
  /\ pc = "fetch"
  /\ calls' = Did(calls, "fetch")
  /\ \/ /\ SendError(NetworkErrorMsg)
        /\ UNCHANGED pageStatus
     \/ \E status \in {200, 404, 500} :
          /\ pageStatus' = status
          /\ IF ResponseOk(status)
             THEN pc' = "text" /\ UNCHANGED events
             ELSE SendError(FetchFailedMsg(status))
  /\ UNCHANGED <<body, httpStatus, html, videoRenderers, limit, i, videoData, videos,
                 info, sub, tmpdir>>

\* await pageResponse.text(), extraction, navigation, limit and the loop up to
\* the first getInfo
ReadPage ==
  /\ pc = "text"
  /\ \E page \in Pages :
       LET vrs == Navigate(page.tabs)
           lim == Limit(Len(vrs), MaxVideosOf(body))
       IN /\ html' = page
          /\ CASE page.ytInitialData = "absent" ->
                 /\ calls' = Did(calls, "extract")
                 /\ SendError(ExtractionError(page.ytInitialData))
                 /\ UNCHANGED <<videoRenderers, limit, i, videoData, videos>>
            [] page.ytInitialData = "malformed" ->
                 /\ calls' = Did(Did(calls, "extract"), "parse")
                 /\ SendError(ExtractionError(page.ytInitialData))
                 /\ UNCHANGED <<videoRenderers, limit, i, videoData, videos>>
            [] OTHER ->
                 /\ calls' = Did(Did(Did(calls, "extract"), "parse"), "navigate")
                 /\ videoRenderers' = vrs
                 /\ IF Len(vrs) = 0
                    THEN /\ SendError(NoVideosMsg)
                         /\ UNCHANGED <<limit, i, videoData, videos>>
                    ELSE /\ limit' = lim
                         /\ LoopFrom(vrs, lim, <<>>, 0)
  /\ UNCHANGED <<body, httpStatus, pageStatus, info, sub, tmpdir>>

\* await ytdl.getInfo(...), the statements after it, and either the start of
\* the subtitle command or, when anything threw, the catch and the loop on
GetInfo ==
  /\ pc = "getInfo"
  /\ calls' = Did(calls, "getInfo")
  /\ \E got \in InfoResults :
       LET r == EnrichFromInfo(videoData, got)
       IN /\ info' = got
          /\ IF ~got.resolves
             THEN CatchInfoFailure(videoData)
             ELSE IF r.threw
             THEN CatchInfoFailure(r.vd)
             ELSE /\ videoData' = r.vd
                  /\ pc' = "execFile"
                  /\ UNCHANGED <<events, i, videos>>
  /\ UNCHANGED <<body, httpStatus, pageStatus, html, videoRenderers, limit, sub, tmpdir>>

\* yt-dlp ends, with or without error, and has left its subtitle file in
\* some state or none; the callback resolves the promise
ExecFile ==
  /\ pc = "execFile"
  /\ calls' = Did(calls, "execFile")
  /\ \E err \in ExecOutcomes, file \in FileOutcomes :
       /\ sub' = [err |-> err, file |-> file]
       /\ tmpdir' = IF file = "missing" THEN tmpdir
                    ELSE tmpdir \cup {SubFile(0, videoData.video_id)}
  /\ pc' = "readSub"
  /\ UNCHANGED <<body, httpStatus, events, pageStatus, html, videoRenderers, limit, i,
                 videoData, videos, info>>

\* fs.unlinkSync(subFile) is reached when the file exists and was read and
\* parsed without exception
UnlinkReached(file) == file \in {"notext", "text"}

\* after the await: the read of the subtitle file, videos.push and the loop
\* on
Transcript ==
  /\ pc = "readSub"
  /\ LoopFrom(videoRenderers, limit, Push(videos, TranscriptFrom(videoData, sub.file)), i + 1)
  /\ tmpdir' = IF UnlinkReached(sub.file)
               THEN tmpdir \ {SubFile(0, videoData.video_id)} ELSE tmpdir
  /\ sub' = NoSub
  /\ UNCHANGED <<body, httpStatus, pageStatus, html, calls, videoRenderers, limit, info>>

IngestNext == Receive \/ PageFetch \/ ReadPage \/ GetInfo \/ ExecFile \/ Transcript

\* ------------------------------------------------- chatWithTools (gemini)
\* for (let round = 0; round < 8; round++)
RoundBudget == 8

\* raw tool results; "" is an absent marker field, hasData tells whether the
\* result has a data array, seq is the identity of the result object (the
\* number of the invocation that produced it, 0 for none)
ToolResult(img, chart, video, hasData, data) ==
  [seq |-> 0, _imageType |-> img, _chartType |-> chart, _videoType |-> video,
   hasData |-> hasData, data |-> data,
   prompt |-> IF img # "" THEN "a prompt" ELSE "",
   mimeType |-> IF img # "" THEN "image/png" ELSE "",
   title |-> IF video # "" THEN "a title" ELSE "",
   url |-> IF video # "" THEN "a url" ELSE ""]

ToolResults ==
  { ToolResult("generated", "", "", TRUE, <<"b", "a", "s", "e">>),
    ToolResult("", "scatter", "", TRUE, <<1, 2>>),
    ToolResult("", "", "youtube", FALSE, <<>>),
    ToolResult("", "", "", TRUE, <<7>>) }

\* a projection that forgets the chart case
ResultForGeminiRawChart(toolResult) ==
  IF toolResult._imageType # ""
  THEN [success |-> TRUE, imageGenerated |-> TRUE, prompt |-> toolResult.prompt,
        mimeType |-> toolResult.mimeType]
  ELSE IF toolResult._videoType # ""
  THEN [success |-> TRUE, videoFound |-> TRUE, title |-> toolResult.title,
        url |-> toolResult.url]
  ELSE toolResult

\* the payload sent back to the model in place of the raw result
ResultForGemini(toolResult) ==
  IF toolResult._imageType # ""
  THEN [success |-> TRUE, imageGenerated |-> TRUE, prompt |-> toolResult.prompt,
        mimeType |-> toolResult.mimeType]
  ELSE IF toolResult._chartType # ""
  THEN [success |-> TRUE, chartGenerated |-> TRUE, chartType |-> toolResult._chartType,
        dataPoints |-> IF toolResult.hasData THEN Num(Len(toolResult.data)) ELSE Undef]
  ELSE IF toolResult._videoType # ""
  THEN [success |-> TRUE, videoFound |-> TRUE, title |-> toolResult.title,
        url |-> toolResult.url]
  ELSE toolResult

UserMessage == [kind |-> "user"]
FunctionResponse(name, result) == [kind |-> "functionResponse", name |-> name, result |-> result]

\* the function-call parts a model response may carry
CallParts == {<<>>, <<"f">>, <<"f", "g">>}

VARIABLES
  cpc,         \* position of chatWithTools
  round,       \* loop counter
  response,    \* the last model response
  received,    \* number of model responses received
  sent,        \* messages sent to the model, in order
  invoked,     \* number of calls of executeFn
  call,        \* name of the function call being executed
  charts,
  toolCalls,
  videoCards,
  returned,    \* the value chatWithTools returned
  error,       \* the rejection that left chatWithTools, "" if none
  turn,        \* what handleSend made of the turn
  abort        \* abortRef.current

cvars == <<cpc, round, response, received, sent, invoked, call, charts, toolCalls,
           videoCards, returned, error, turn, abort>>

NoResponse == [calls |-> <<>>, text |-> <<"text", 0>>]
NoReturn == [text |-> <<"text", 0>>, charts |-> <<>>, toolCalls |-> <<>>, videoCards |-> <<>>]

\* null as a video card
NoCard == ToolResult("", "", "", FALSE, <<>>)

\* the card of the play_video fallback of handleSend
FallbackCard == [ToolResult("", "", "youtube", FALSE, <<>>) EXCEPT !.title = "fallback title"]

\* the result of the compute_stats_json fallback of handleSend
FallbackStats == ToolResult("", "", "", TRUE, <<9>>)

\* handleSend's locals: state is "running" until chatWithTools settles
NoTurn ==
  [state |-> "running", fullContent |-> <<"text", 0>>, toolCharts |-> <<>>,
   toolCalls |-> <<>>, videoCard |-> NoCard]

ChatIdle ==
  /\ cpc = "start"
  /\ round = 0
  /\ response = NoResponse
  /\ received = 0
  /\ sent = <<>>
  /\ invoked = 0
  /\ call = ""
  /\ charts = <<>>
  /\ toolCalls = <<>>
  /\ videoCards = <<>>
  /\ returned = NoReturn
  /\ error = ""
  /\ turn = NoTurn
  /\ abort = FALSE

\* the first chat.sendMessage(msgParts)
SendUserMessage ==
  /\ cpc = "start"
  /\ sent' = Append(sent, UserMessage)
  /\ cpc' = "awaitModel"
  /\ UNCHANGED <<round, response, received, invoked, call, charts, toolCalls,
                 videoCards, returned, error, turn, abort>>

\* a loop condition that lets one more round pass
InBudgetInclusive(r) == r <= RoundBudget

\* a loop condition that stops one round early
InBudgetShort(r) == r < RoundBudget - 1

\* the loop condition for counter r
InBudget(r) == r < RoundBudget

\* a loop without the break on a response without function call
HasFuncCallUnchecked(parts) == TRUE

\* parts.find((p) => p.functionCall) found a part
HasFuncCall(parts) == parts # <<>>

\* the name of the last function-call part
FuncCallNameLast(parts) == IF parts # <<>> THEN parts[Len(parts)] ELSE ""

\* the name of the first function-call part
FuncCallName(parts) == IF parts # <<>> THEN Head(parts) ELSE ""

\* return { text: response.text(), charts, toolCalls, videoCards }
ReturnValue(resp) ==
  [text |-> resp.text, charts |-> charts, toolCalls |-> toolCalls, videoCards |-> videoCards]

\* returnedVideoCards?.[0] || null
FirstVideoCard(cards) == IF Len(cards) > 0 THEN cards[1] ELSE NoCard

\* handleSend after chatWithTools returned ret: it takes the text, the charts,
\* the tool calls and the first video card; without video card the play_video
\* fallback may supply one (playFallback), and without any tool call the
\* compute_stats_json fallback may supply a record (statsFallback)
HandleSendReturn(ret, playFallback, statsFallback) ==
  LET card == FirstVideoCard(ret.videoCards)
      play == playFallback /\ card = NoCard
      calls1 == IF play
                THEN Append(ret.toolCalls, [name |-> "play_video", result |-> FallbackCard])
                ELSE ret.toolCalls
      stats == statsFallback /\ Len(calls1) = 0
  IN [state |-> "done",
      fullContent |-> ret.text,
      toolCharts |-> ret.charts,
      toolCalls |-> IF stats
                    THEN <<[name |-> "compute_stats_json", result |-> FallbackStats]>>
                    ELSE calls1,
      videoCard |-> IF play THEN FallbackCard ELSE card]

\* handleSend's catch: the turn ends with the error text
HandleSendCatch(msg) == [NoTurn EXCEPT !.state = "failed", !.fullContent = <<"Error: ", msg>>]

\* a rejection leaves chatWithTools and is caught by handleSend
Throw(msg) ==
  /\ cpc' = "thrown"
  /\ error' = msg
  /\ turn' = HandleSendCatch(msg)

\* a sendMessage settles: a rejection leaves chatWithTools; a response is
\* inspected at once, and either executeFn is called for its first
\* function-call part or the loop is left and the result returned
ModelResponds ==
  /\ cpc = "awaitModel"
  /\ \/ /\ Throw("model error")
        /\ UNCHANGED <<round, response, received, invoked, call, returned>>
     \/ \E parts \in CallParts :
          LET r == [calls |-> parts, text |-> <<"text", received + 1>>]
              rnd == IF received = 0 THEN 0 ELSE round + 1
          IN /\ response' = r
             /\ received' = received + 1
             /\ round' = rnd
             /\ IF InBudget(rnd) /\ HasFuncCall(parts)
                THEN /\ call' = FuncCallName(parts)
                     /\ invoked' = invoked + 1
                     /\ cpc' = "tool"
                     /\ UNCHANGED <<returned, error, turn>>
                ELSE /\ returned' = ReturnValue(r)
                     /\ cpc' = "returned"
                     /\ \E playFallback \in (IF Len(videoCards) = 0 THEN BOOLEAN ELSE {FALSE}),
                           statsFallback \in (IF Len(toolCalls) = 0 THEN BOOLEAN ELSE {FALSE}) :
                          turn' = HandleSendReturn(ReturnValue(r), playFallback, statsFallback)
                     /\ UNCHANGED <<call, invoked, error>>
  /\ UNCHANGED <<sent, charts, toolCalls, videoCards, abort>>

\* a rejection of executeFn that is answered to the model as a result
ToolRejectedAnswered ==
  /\ error' = "tool error"
  /\ sent' = Append(sent, FunctionResponse(call, NoCard))
  /\ cpc' = "awaitModel"
  /\ UNCHANGED <<charts, toolCalls, videoCards, turn>>

\* executeFn rejects: nothing catches it in chatWithTools
ToolRejected ==
  /\ Throw("tool error")
  /\ UNCHANGED <<sent, charts, toolCalls, videoCards>>

\* a test that takes only charts for the charts list
IsChartOnly(toolResult) == toolResult._chartType # ""

\* toolResult?._chartType || toolResult?._imageType
IsChartOrImage(toolResult) == toolResult._chartType # "" \/ toolResult._imageType # ""

\* toolResult?._videoType
IsVideo(toolResult) == toolResult._videoType # ""

\* executeFn settles: a rejection leaves chatWithTools; a result is recorded,
\* classified, and its sanitized form sent to the model
ToolSettles ==
  /\ cpc = "tool"
  /\ \/ ToolRejected
     \/ \E produced \in ToolResults :
          LET toolResult == [produced EXCEPT !.seq = invoked] IN
          /\ toolCalls' = Append(toolCalls, [name |-> call, result |-> toolResult])
          /\ charts' = IF IsChartOrImage(toolResult) THEN Append(charts, toolResult) ELSE charts
          /\ videoCards' = IF IsVideo(toolResult)
                           THEN Append(videoCards, toolResult) ELSE videoCards
          /\ sent' = Append(sent, FunctionResponse(call, ResultForGemini(toolResult)))
          /\ cpc' = "awaitModel"
          /\ UNCHANGED <<error, turn>>
  /\ UNCHANGED <<round, response, received, invoked, call, returned, abort>>

\* the user presses Stop while the turn is running
HandleStop ==
  /\ cpc \in {"awaitModel", "tool"}
  /\ ~abort
  /\ abort' = TRUE
  /\ UNCHANGED <<cpc, round, response, received, sent, invoked, call, charts, toolCalls,
                 videoCards, returned, error, turn>>

ChatNext == SendUserMessage \/ ModelResponds \/ ToolSettles

\* ------------------------------------------- concurrent ingestion runs
\* two requests handled by the same server process: each runs the loop of the
\* handler over its own list of video ids; the subtitle files live in
\* os.tmpdir(), which the runs of one server share
MaxRunVideos == 2

Runs == {1, 2}

VideoIds == 1..MaxRunVideos

\* the lists of ids a run goes through: consecutive ids of the channel
RunLists ==
  {[k \in 1..w[2] |-> w[1] + k - 1] :
     w \in {w \in VideoIds \X VideoIds : w[1] + w[2] - 1 <= MaxRunVideos}}

VARIABLES
  run,        \* per run: its ids, position, loop index and videos array
  captioned   \* the ids of the videos that have English auto-captions

rvars == <<run, tmpdir, captioned>>

\* the record of a video before the enrichment
RunRecord(videoId) == [video_id |-> videoId, enriched |-> FALSE, transcript |-> ""]

NoRun == [ids |-> <<>>, pc |-> "ended", i |-> 0, videos |-> <<>>]

RunsIdle ==
  /\ run = [r \in Runs |-> NoRun]
  /\ tmpdir = {}
  /\ captioned = {}

RunsInit ==
  /\ \E l1 \in RunLists, l2 \in RunLists :
       run = [r \in Runs |->
                [ids |-> IF r = 1 THEN l1 ELSE l2, pc |-> "getInfo", i |-> 1, videos |-> <<>>]]
  /\ tmpdir = {}
  /\ captioned \in SUBSET VideoIds

\* videos.push(videoData) and the next iteration of the loop
RunPush(r, rec) ==
  run' = [run EXCEPT ![r].videos = Append(@, rec),
                     ![r].i = @ + 1,
                     ![r].pc = IF run[r].i < Len(run[r].ids) THEN "getInfo" ELSE "ended"]

\* ytdl.getInfo settles: a rejection skips the transcript step, a result
\* starts yt-dlp
RunGetInfo(r) ==
  /\ run[r].pc = "getInfo"
  /\ \/ RunPush(r, RunRecord(run[r].ids[run[r].i]))
     \/ run' = [run EXCEPT ![r].pc = "execFile"]
  /\ UNCHANGED <<tmpdir, captioned>>

\* yt-dlp exits: it has written the subtitle file of a video with captions;
\* the callback resolves the promise
RunExecFile(r) ==
  /\ run[r].pc = "execFile"
  /\ LET videoId == run[r].ids[run[r].i]
     IN tmpdir' = IF videoId \in captioned
                  THEN tmpdir \cup {SubFile(r, videoId)} ELSE tmpdir
  /\ run' = [run EXCEPT ![r].pc = "readSub"]
  /\ UNCHANGED captioned

\* after the await: existsSync, readFileSync, unlinkSync, videos.push
RunReadSub(r) ==
  /\ run[r].pc = "readSub"
  /\ LET videoId == run[r].ids[run[r].i]
         subFile == SubFile(r, videoId)
         vd == [RunRecord(videoId) EXCEPT !.enriched = TRUE]
     IN IF subFile \in tmpdir
        THEN /\ RunPush(r, TranscriptFrom(vd, "text"))
             /\ tmpdir' = tmpdir \ {subFile}
        ELSE /\ RunPush(r, TranscriptFrom(vd, "missing"))
             /\ UNCHANGED tmpdir
  /\ UNCHANGED captioned

RunsNext == \E r \in Runs : RunGetInfo(r) \/ RunExecFile(r) \/ RunReadSub(r)

\* ------------------------------------------- concurrent conversation turns
\* two calls of the gemini service (chatWithTools or streamChat) in one page:
\* the module-level cachedPrompt is the only binding outside the calls
MaxTurnRounds == 2

Turns == {1, 2}

TurnKinds == {"chatWithTools", "streamChat"}

VARIABLES
  cachedPrompt,   \* let cachedPrompt: its text and the turn that assigned it
  turns,          \* per turn: kind, position, systemInstruction, rounds, result
  accs            \* per accumulator: the toolCalls array of a call

tvars == <<cachedPrompt, turns, accs>>

\* let cachedPrompt = null
NullPrompt == [text |-> "null", writer |-> 0]

\* the text of /prompt_chat.txt, trimmed
PromptText == "prompt"

\* if (cachedPrompt): null and '' are falsy
PromptTruthy(p) == p.text \notin {"null", ""}

NoTurnCall == [kind |-> "chatWithTools", pc |-> "idle", systemInstruction |-> NullPrompt,
               round |-> 0, result |-> <<>>]

TurnsIdle ==
  /\ cachedPrompt = NullPrompt
  /\ turns = [t \in Turns |-> NoTurnCall]
  /\ accs = [t \in Turns |-> <<>>]

TurnsInit ==
  /\ cachedPrompt = NullPrompt
  /\ \E k1 \in TurnKinds, k2 \in TurnKinds :
       turns = [t \in Turns |->
                  [NoTurnCall EXCEPT !.kind = IF t = 1 THEN k1 ELSE k2, !.pc = "start"]]
  /\ accs = [t \in Turns |-> <<>>]

\* all calls appending to one array
AccShared(t) == 1

\* const toolCalls = [] inside the call: every call has its own array
AccOf(t) == t

\* cachedPrompt = ...; return cachedPrompt
StorePrompt(t, text) ==
  LET p == [text |-> text, writer |-> t]
  IN /\ cachedPrompt' = p
     /\ turns' = [turns EXCEPT ![t].systemInstruction = p, ![t].pc = "send"]

\* the call and loadSystemPrompt up to its first await
TurnStarts(t) ==
  /\ turns[t].pc = "start"
  /\ IF PromptTruthy(cachedPrompt)
     THEN turns' = [turns EXCEPT ![t].systemInstruction = cachedPrompt, ![t].pc = "send"]
     ELSE turns' = [turns EXCEPT ![t].pc = "fetch"]
  /\ UNCHANGED <<cachedPrompt, accs>>

\* await fetch('/prompt_chat.txt') settles
TurnFetchSettles(t) ==
  /\ turns[t].pc = "fetch"
  /\ \/ StorePrompt(t, "")
     \/ /\ turns' = [turns EXCEPT ![t].pc = "text"]
        /\ UNCHANGED cachedPrompt
  /\ UNCHANGED accs

\* await res.text() settles
TurnTextSettles(t) ==
  /\ turns[t].pc = "text"
  /\ \/ StorePrompt(t, PromptText)
     \/ StorePrompt(t, "")
  /\ UNCHANGED accs

\* the first message is sent; a streamChat call has no tool loop
TurnSends(t) ==
  /\ turns[t].pc = "send"
  /\ turns' = [turns EXCEPT ![t].pc = IF turns[t].kind = "streamChat" THEN "stream" ELSE "model"]
  /\ UNCHANGED <<cachedPrompt, accs>>

\* the stream of a streamChat call ends
TurnStreamEnds(t) ==
  /\ turns[t].pc = "stream"
  /\ turns' = [turns EXCEPT ![t].pc = "returned"]
  /\ UNCHANGED <<cachedPrompt, accs>>

\* the model answers: with a function call the callback is invoked, without
\* one the call returns its toolCalls
TurnModelResponds(t) ==
  /\ turns[t].pc = "model"
  /\ \/ /\ turns[t].round < MaxTurnRounds
        /\ turns' = [turns EXCEPT ![t].pc = "tool"]
     \/ turns' = [turns EXCEPT ![t].pc = "returned", ![t].result = accs[AccOf(t)]]
  /\ UNCHANGED <<cachedPrompt, accs>>

\* the callback settles: toolCalls.push and the function response
TurnToolSettles(t) ==
  /\ turns[t].pc = "tool"
  /\ accs' = [accs EXCEPT ![AccOf(t)] = Append(@, [turn |-> t, n |-> turns[t].round + 1])]
  /\ turns' = [turns EXCEPT ![t].round = @ + 1, ![t].pc = "model"]
  /\ UNCHANGED cachedPrompt

TurnsNext ==
  \E t \in Turns :
    \/ TurnStarts(t) \/ TurnFetchSettles(t) \/ TurnTextSettles(t) \/ TurnSends(t)
    \/ TurnStreamEnds(t) \/ TurnModelResponds(t) \/ TurnToolSettles(t)

\* ------------------------------------------ the ingestion client's reader
\* the client reads the response body chunk by chunk; the frames are those
\* the server's send writes: progress events, then done or error
MaxFrames == 3

LF == "\n"

\* 'data: '
DataPrefix == <<"d", "a", "t", "a", ":", " ">>

\* the events of a stream: n progress events and a terminal event
StreamEvent(type, n) == [type |-> type, n |-> n]

StreamsSent ==
  {[k \in 1..(n + 1) |-> IF k <= n THEN StreamEvent("progress", k) ELSE StreamEvent(last, n)] :
     n \in 0..MaxFrames, last \in {"done", "error"}}

\* the decimal digit of a number below ten
Digit(n) == CHOOSE c \in {"0", "1", "2", "3", "4", "5", "6", "7", "8", "9"} : DigitVal(c) = n

\* JSON.stringify(data): one line, a line feed inside a string is escaped
Stringify(e) ==
  <<"{", (CASE e.type = "progress" -> "p" [] e.type = "done" -> "v" [] OTHER -> "m"),
    Digit(e.n), "}">>

\* res.write(`data: ${JSON.stringify(data)}\n\n`)
Frame(e) == DataPrefix \o Stringify(e) \o <<LF, LF>>

RECURSIVE Wire(_)
Wire(es) == IF es = <<>> THEN <<>> ELSE Frame(Head(es)) \o Wire(Tail(es))

\* the events whose JSON text a line can be
AllStreamEvents ==
  {StreamEvent(type, n) : type \in {"progress", "done", "error"}, n \in 0..MaxFrames}

\* JSON.parse(text): the event, or a SyntaxError
SyntaxError == StreamEvent("SyntaxError", 0)

JsonParse(text) ==
  IF \E e \in AllStreamEvents : Stringify(e) = text
  THEN CHOOSE e \in AllStreamEvents : Stringify(e) = text
  ELSE SyntaxError

\* buffer.split('\n'): the pieces between the line feeds, at least one
RECURSIVE Split(_, _)
Split(str, piece) ==
  IF str = <<>> THEN <<piece>>
  ELSE IF Head(str) = LF THEN <<piece>> \o Split(Tail(str), <<>>)
  ELSE Split(Tail(str), Append(piece, Head(str)))

\* line.startsWith('data: ')
StartsWithData(line) == Len(line) >= 6 /\ SubSeq(line, 1, 6) = DataPrefix

\* a reader that does not keep the unfinished line
DropRest(pieces) == <<>>

\* buffer = lines.pop()
PopRest(pieces) == pieces[Len(pieces)]

VARIABLES
  rpc,          \* position of the reader loop
  sentEvents,   \* the events the server wrote
  wire,         \* the characters of the body not yet delivered
  buffer,       \* let buffer
  dispatched,   \* the events parsed and handled, in order
  ui            \* progress, videos and error state of the component

clvars == <<rpc, sentEvents, wire, buffer, dispatched, ui>>

NoUi == [progress |-> 0, videos |-> FALSE, error |-> FALSE]

ClientIdle ==
  /\ rpc = "idle"
  /\ sentEvents = <<>>
  /\ wire = <<>>
  /\ buffer = <<>>
  /\ dispatched = <<>>
  /\ ui = NoUi

ClientInit ==
  /\ rpc = "read"
  /\ sentEvents \in StreamsSent
  /\ wire = Wire(sentEvents)
  /\ buffer = <<>>
  /\ dispatched = <<>>
  /\ ui = NoUi

\* setProgress / setVideos / setError of one event
Dispatch(u, e) ==
  CASE e.type = "progress" -> [u EXCEPT !.progress = e.n]
    [] e.type = "done" -> [u EXCEPT !.videos = TRUE, !.progress = 100]
    [] e.type = "error" -> [u EXCEPT !.error = TRUE]
    [] OTHER -> u

\* for (const line of lines): the events of the lines that start with
\* 'data: ' and parse
RECURSIVE EventsOf(_)
EventsOf(lines) ==
  IF lines = <<>> THEN <<>>
  ELSE LET line == Head(lines)
           e == JsonParse(SubSeq(line, 7, Len(line)))
       IN (IF StartsWithData(line) /\ e # SyntaxError THEN <<e>> ELSE <<>>)
            \o EventsOf(Tail(lines))

RECURSIVE DispatchAll(_, _)
DispatchAll(u, es) == IF es = <<>> THEN u ELSE DispatchAll(Dispatch(u, Head(es)), Tail(es))

\* reader.read() resolves with a chunk of n characters: one iteration of the
\* loop
ReadChunk ==
  /\ rpc = "read"
  /\ \E n \in 1..Len(wire) :
       LET pieces == Split(buffer \o SubSeq(wire, 1, n), <<>>)
           lines == SubSeq(pieces, 1, Len(pieces) - 1)
           es == EventsOf(lines)
       IN /\ wire' = SubSeq(wire, n + 1, Len(wire))
          /\ buffer' = PopRest(pieces)
          /\ dispatched' = dispatched \o es
          /\ ui' = DispatchAll(ui, es)
  /\ UNCHANGED <<rpc, sentEvents>>

\* reader.read() resolves with done: break
ReadDone ==
  /\ rpc = "read"
  /\ wire = <<>>
  /\ rpc' = "closed"
  /\ UNCHANGED <<sentEvents, wire, buffer, dispatched, ui>>

ClientNext == ReadChunk \/ ReadDone

\* ---------------------------------------------------------- specifications
vars == <<ivars, cvars, rvars, tvars, clvars>>

\* no ingestion run
IngestIdle ==
  /\ body = [url |-> "absent", maxVideos |-> Undef]
  /\ pc = "idle"
  /\ httpStatus = 0
  /\ events = <<>>
  /\ pageStatus = 0
  /\ html = NoPage
  /\ calls = [st \in Steps |-> 0]
  /\ videoRenderers = <<>>
  /\ limit = 0
  /\ i = 0
  /\ videoData = Step1(NoId)
  /\ videos = <<>>
  /\ info = InfoRejected
  /\ sub = NoSub

\* one ingestion run
Init == IngestInit /\ ChatIdle /\ RunsIdle /\ TurnsIdle /\ ClientIdle

Next == IngestNext /\ UNCHANGED <<cvars, run, captioned, tvars, clvars>>

Spec == Init /\ [][Next]_vars

\* one call of chatWithTools
ChatInit == IngestIdle /\ ChatIdle /\ RunsIdle /\ TurnsIdle /\ ClientIdle

ChatStep == ChatNext /\ UNCHANGED <<ivars, rvars, tvars, clvars>>

SpecChat == ChatInit /\ [][ChatStep]_vars

\* one call of chatWithTools during which the user may press Stop
StopStep == (ChatNext \/ HandleStop) /\ UNCHANGED <<ivars, rvars, tvars, clvars>>

SpecStop == ChatInit /\ [][StopStep]_vars

\* two ingestion runs in one server process
TwoRunsInit == IngestIdle /\ ChatIdle /\ RunsInit /\ TurnsIdle /\ ClientIdle

TwoRunsStep == RunsNext /\ UNCHANGED <<ivars, cvars, tvars, clvars>>

SpecTwoRuns == TwoRunsInit /\ [][TwoRunsStep]_vars

\* two conversation turns in one page
TwoTurnsInit == IngestIdle /\ ChatIdle /\ RunsIdle /\ TurnsInit /\ ClientIdle

TwoTurnsStep == TurnsNext /\ UNCHANGED <<ivars, cvars, rvars, clvars>>

SpecTwoTurns == TwoTurnsInit /\ [][TwoTurnsStep]_vars

\* the client reading one response body
ReaderInit == IngestIdle /\ ChatIdle /\ RunsIdle /\ TurnsIdle /\ ClientInit

ReaderStep == ClientNext /\ UNCHANGED <<ivars, cvars, rvars, tvars>>

SpecReader == ReaderInit /\ [][ReaderStep]_vars

\* ------------------------------------------------------------------ claims
HasTerminal == \E k \in 1..Len(events) : IsTerminal(events[k])

TerminalIsLast == \A k \in 1..Len(events) : IsTerminal(events[k]) => k = Len(events)

ProgressIndexes == {k \in 1..Len(events) : events[k].type = "progress"}

DoneSent == Len(events) > 0 /\ events[Len(events)].type = "done"

ErrorSent == Len(events) > 0 /\ events[Len(events)].type = "error"

\* C1 as stated: for every request, once the handler is over exactly one
\* terminal event (done or error) was emitted, and it is the last event.
C1_EveryRequestEndsWithOneTerminal ==
  /\ TerminalIsLast
  /\ pc \in {"ended", "rejected"} => HasTerminal

\* C1 amended: for every request that carries a url, exactly one terminal
\* event is emitted, every progress event precedes it and nothing follows it
\* (the handler is over as soon as it is written); a request without url is
\* answered with HTTP 400 and no event at all.
C1_OneTerminalPerStream ==
  /\ TerminalIsLast
  /\ HasTerminal <=> pc = "ended"
  /\ pc = "rejected" => events = <<>> /\ httpStatus = 400 /\ body.url = "absent"
  /\ body.url = "absent" => events = <<>>

C1_Witness ==
  /\ pc = "ended"
  /\ Len(events) = 3
  /\ events[1].type = "progress"
  /\ events[2].type = "progress"
  /\ events[3].type = "done"

\* C2 as stated: each progress event's current is one greater than the
\* current of the previous progress event of the run.
C2_CurrentStepsByOne ==
  \A k \in ProgressIndexes :
    \A m \in ProgressIndexes :
      (m < k /\ \A x \in ProgressIndexes : ~(m < x /\ x < k))
        => events[k].current = events[m].current + 1

\* C3 as stated: the limit, and the total of every progress event, is
\* min(available entries, clamp(maxVideos, 1, 100)), a value that is no number
\* counting as the default.
HardCap == 100

ClampedMaxVideos ==
  LET n == ToNumber(MaxVideosOf(body))
  IN IF n.t = "nan" THEN DefaultMaxVideos ELSE Max(1, Min(HardCap, n.n))

C3_LimitIsClamped ==
  Len(videoRenderers) > 0 =>
    /\ limit = Min(Len(videoRenderers), ClampedMaxVideos)
    /\ \A k \in ProgressIndexes : events[k].total = Min(Len(videoRenderers), ClampedMaxVideos)

\* the ids of the first lim renderers that have one, in order
ExpectedIds(vrs, lim) == SelectSeq(SubSeq(vrs, 1, lim), LAMBDA v : v # NoId)

\* C4: a done event carries exactly one record per renderer with an id among
\* the first limit renderers, in the order of the page, whether or not the
\* enrichment of the item failed.
C4_DoneHasOneRecordPerId ==
  \A k \in 1..Len(events) :
    events[k].type = "done" =>
      LET ids == ExpectedIds(videoRenderers, limit)
      IN /\ Len(events[k].videos) = Len(ids)
         /\ \A j \in 1..Len(ids) : events[k].videos[j].video_id = ids[j]

C4_Witness ==
  /\ DoneSent
  /\ \E k \in 1..limit : videoRenderers[k] = NoId
  /\ Len(events[Len(events)].videos) = 2
  /\ events[Len(events)].videos[1].description = ""
  /\ events[Len(events)].videos[2].description # ""
  /\ events[Len(events)].videos[2].transcript = ""

\* C5: once the navigation produced a non-empty list, the run never emits an
\* error event, whatever the info fetches and transcript steps did, and it
\* ends with done.
C5_EnrichmentNeverFatal ==
  Len(videoRenderers) > 0 =>
    /\ \A k \in 1..Len(events) : events[k].type # "error"
    /\ pc = "ended" => DoneSent

C5_Witness ==
  /\ DoneSent
  /\ calls["getInfo"] = 3
  /\ calls["execFile"] = 1
  /\ \E k \in 1..Len(videos) : videos[k].description = ""
  /\ \E k \in 1..Len(videos) : videos[k].description # "" /\ videos[k].comment_count = Null

\* C6: after a non-successful status of the page fetch the run has emitted
\* one error event and nothing else, fetched the page once, and performed no
\* extraction, navigation or enrichment step.
C6_FailedFetchAbortsAtOnce ==
  pageStatus \notin {0, 200} =>
    /\ pc = "ended"
    /\ Len(events) = 1
    /\ events[1].type = "error"
    /\ calls = [st \in Steps |-> IF st = "fetch" THEN 1 ELSE 0]
    /\ html = NoPage
    /\ videos = <<>>

C6_Witness == pageStatus = 404 /\ pc = "ended" /\ events = <<ErrorEvent(FetchFailedMsg(404))>>

\* C7: a page without recognizable ytInitialData yields the single event
\* error 'could not extract', unparsable JSON the single event error 'failed
\* to parse', an empty navigation the single event error 'no videos found';
\* the three messages differ and no progress event is emitted.
C7_FatalErrorsDistinguished ==
  /\ html.ytInitialData = "absent" => events = <<ErrorEvent(CouldNotExtractMsg)>>
  /\ html.ytInitialData = "malformed" => events = <<ErrorEvent(ParseFailedMsg)>>
  /\ (html.ytInitialData = "object" /\ Navigate(html.tabs) = <<>>)
       => events = <<ErrorEvent(NoVideosMsg)>>
  /\ CouldNotExtractMsg # ParseFailedMsg
  /\ CouldNotExtractMsg # NoVideosMsg
  /\ ParseFailedMsg # NoVideosMsg

C7_Witness ==
  /\ html.ytInitialData = "absent"
  /\ pc = "ended"
  /\ Len(events) = 1
  /\ events[1].message = CouldNotExtractMsg

IntegerOrNull(v) == v.t \in {"num", "null"}

\* C8: in every record of a done event view_count, like_count and
\* comment_count are an integer or null (a NaN a parse left in the record is
\* written as null).
C8_CountsIntegerOrNull ==
  \A k \in 1..Len(events) :
    events[k].type = "done" =>
      \A j \in 1..Len(events[k].videos) :
        /\ IntegerOrNull(events[k].videos[j].view_count)
        /\ IntegerOrNull(events[k].videos[j].like_count)
        /\ IntegerOrNull(events[k].videos[j].comment_count)

C8_Witness ==
  /\ DoneSent
  /\ \E j \in 1..Len(videos) : videos[j].view_count = NaN /\ videos[j].comment_count = NaN
  /\ \E j \in 1..Len(videos) : videos[j].view_count = Num(12) /\ videos[j].like_count = Num(3)
  /\ \E j \in 1..Len(videos) : videos[j].view_count = Null /\ videos[j].description # ""

\* C9 as stated: one call sends at most 8 messages to the model.
C9_AtMostEightMessages == Len(sent) <= RoundBudget

\* C9 amended: one call invokes at most 8 tools and sends at most 9 messages
\* to the model, the initial user message and at most 8 function responses.
C9_AtMostEightToolRounds ==
  /\ invoked <= RoundBudget
  /\ Len(sent) <= RoundBudget + 1
  /\ received <= Len(sent)
  /\ \A k \in 1..Len(sent) : (sent[k].kind = "user") <=> (k = 1)

C9_Witness == cpc = "returned" /\ Len(sent) = RoundBudget + 1 /\ invoked = RoundBudget

\* C10: with a model that requests a function call in every response the
\* call returns, throwing nothing, after exactly 8 rounds and 8 tool
\* invocations, and the text it returns is the text of the response obtained
\* in the 8th round (the answer to the 8th function response).
C10_ExhaustedBudgetReturns ==
  /\ (cpc = "returned" /\ response.calls # <<>>) =>
       /\ round = RoundBudget
       /\ invoked = RoundBudget
       /\ Len(toolCalls) = RoundBudget
       /\ sent[Len(sent)].kind = "functionResponse"
       /\ received = Len(sent)
       /\ returned.text = response.text
       /\ returned.text = <<"text", RoundBudget + 1>>
  /\ round = RoundBudget => cpc = "returned"

C10_Witness == cpc = "returned" /\ response.calls # <<>> /\ invoked = RoundBudget

\* the raw results of the tool calls recorded so far
RawResults == [k \in 1..Len(toolCalls) |-> toolCalls[k].result]

\* C11: a response without function-call part ends the loop at once: the
\* call has returned the text of that response, every earlier response was
\* followed by one tool invocation, and no message was sent after it.
C11_NoCallEndsLoop ==
  (received > 0 /\ response.calls = <<>>) =>
    /\ cpc = "returned"
    /\ returned.text = response.text
    /\ returned.text = <<"text", received>>
    /\ Len(sent) = received
    /\ invoked = received - 1
    /\ Len(toolCalls) = invoked

C11_Witness ==
  /\ cpc = "returned"
  /\ response.calls = <<>>
  /\ invoked = 2
  /\ round = 2

\* C12: the k-th function response carries the sanitized projection of the
\* k-th raw result: {success, imageGenerated, prompt, mimeType} for an image,
\* {success, chartGenerated, chartType, dataPoints = length of data} for a
\* chart, {success, videoFound, title, url} for a video card, the result itself
\* otherwise; no data of an image or chart is sent.
C12_SanitizedProjection ==
  /\ Len(sent) > 0 => Len(sent) = Len(toolCalls) + 1
  /\ \A k \in 1..Len(toolCalls) :
       LET raw == toolCalls[k].result
           payload == sent[k + 1].result
       IN /\ sent[k + 1].kind = "functionResponse"
          /\ raw._imageType # "" =>
               /\ payload = [success |-> TRUE, imageGenerated |-> TRUE,
                             prompt |-> raw.prompt, mimeType |-> raw.mimeType]
               /\ "data" \notin DOMAIN payload
          /\ (raw._imageType = "" /\ raw._chartType # "") =>
               /\ payload = [success |-> TRUE, chartGenerated |-> TRUE,
                             chartType |-> raw._chartType,
                             dataPoints |-> Num(Len(raw.data))]
               /\ "data" \notin DOMAIN payload
          /\ (raw._imageType = "" /\ raw._chartType = "" /\ raw._videoType # "") =>
               payload = [success |-> TRUE, videoFound |-> TRUE,
                          title |-> raw.title, url |-> raw.url]
          /\ (raw._imageType = "" /\ raw._chartType = "" /\ raw._videoType = "") =>
               payload = raw

C12_Witness ==
  /\ Len(sent) = 5
  /\ toolCalls[1].result._chartType = "scatter"
  /\ sent[2].result.dataPoints = Num(2)
  /\ toolCalls[2].result._imageType # ""
  /\ toolCalls[3].result._videoType # ""
  /\ toolCalls[4].result.data = <<7>>
  /\ sent[5].result.data = <<7>>

\* C13: when chatWithTools has returned, toolCalls holds one record per tool
\* invocation in invocation order with the raw result, charts the results with
\* a chart or image marker in that order, videoCards the results with a video
\* marker in that order, and handleSend takes the first video card.
C13_Accumulators ==
  cpc = "returned" =>
    /\ Len(returned.toolCalls) = invoked
    /\ \A k \in 1..invoked :
         /\ returned.toolCalls[k].result.seq = k
         /\ [returned.toolCalls[k].result EXCEPT !.seq = 0] \in ToolResults
    /\ returned.charts =
         SelectSeq(RawResults, LAMBDA r : r._chartType # "" \/ r._imageType # "")
    /\ returned.videoCards = SelectSeq(RawResults, LAMBDA r : r._videoType # "")
    /\ turn.state = "done"
    /\ turn.toolCharts = returned.charts
    /\ Len(returned.videoCards) > 0 =>
         /\ turn.videoCard = returned.videoCards[1]
         /\ turn.toolCalls = returned.toolCalls

C13_Witness ==
  /\ cpc = "returned"
  /\ invoked = 5
  /\ Len(returned.charts) = 2
  /\ returned.charts[1]._imageType # ""
  /\ returned.charts[2]._chartType # ""
  /\ Len(returned.videoCards) = 2
  /\ returned.videoCards[1].seq = 2
  /\ returned.videoCards[2].seq = 5
  /\ turn.videoCard.seq = 2

\* C14: a rejection of executeFn leaves chatWithTools and ends the turn: the
\* tool call is not recorded, no function response is sent for it, nothing is
\* returned and handleSend shows the error.
C14_ToolRejectionEndsTurn ==
  error = "tool error" =>
    /\ cpc = "thrown"
    /\ Len(toolCalls) = invoked - 1
    /\ Len(sent) = invoked
    /\ received = invoked
    /\ returned = NoReturn
    /\ turn = HandleSendCatch("tool error")

C14_Witness ==
  /\ error = "tool error"
  /\ cpc = "thrown"
  /\ invoked = 3
  /\ Len(sent) = 3

\* C15 as stated: once the caller asked to stop, no tool invocation of a
\* later round starts (the call in progress goes on).
C15_StopEndsLoop == [][abort => invoked' = invoked]_vars

C15_StopIsReached == abort /\ cpc = "tool"

\* the containers of a page in scan order: of every tab with a tabRenderer
\* the grid, then the sections of its legacy list
RECURSIVE Containers(_)
Containers(tabs) ==
  IF tabs = <<>> THEN <<>>
  ELSE (IF Head(tabs).tabRenderer
        THEN <<Head(tabs).richGrid>> \o Head(tabs).sectionList
        ELSE <<>>) \o Containers(Tail(tabs))

\* the containers that hold at least one video entry
NonEmptyContainers(cs) == {k \in 1..Len(cs) : \E j \in 1..Len(cs[k]) : cs[k][j] >= 0}

\* C16: the navigation returns the video entries, in the container's order,
\* of the first container in scan order (tab by tab, grid before legacy
\* sections) that has any; a grid with entries wins over the legacy list of
\* its tab.
C16_FirstNonEmptyContainer ==
  html.ytInitialData = "object" =>
    LET cs == Containers(html.tabs)
        ne == NonEmptyContainers(cs)
    IN IF ne = {} THEN videoRenderers = <<>>
       ELSE LET first == CHOOSE k \in ne : \A m \in ne : k <= m
            IN videoRenderers = SelectSeq(cs[first], LAMBDA c : c >= 0)

C16_Witness ==
  /\ html.ytInitialData = "object"
  /\ Len(html.tabs) = 1
  /\ html.tabs[1].richGrid = <<51, 52>>
  /\ html.tabs[1].sectionList = << <<61>> >>
  /\ videoRenderers = <<51, 52>>

\* C17: the run fails with 'no videos found' exactly when no container of
\* any tab has a video entry; an empty container of an earlier tab does not
\* end the run when a later one has entries.
C17_NoVideosIffAllEmpty ==
  html.ytInitialData = "object" =>
    ((\E k \in 1..Len(events) : events[k] = ErrorEvent(NoVideosMsg))
       <=> NonEmptyContainers(Containers(html.tabs)) = {})

C17_Witness ==
  /\ Len(html.tabs) = 2
  /\ html.tabs[1].tabRenderer
  /\ html.tabs[1].richGrid = <<NoRenderer>>
  /\ html.tabs[1].sectionList = << <<>> >>
  /\ html.tabs[2].sectionList = << <<221>> >>
  /\ html.tabs[2].richGrid = <<>>
  /\ DoneSent
  /\ Len(events[Len(events)].videos) = 1

\* C18: every progress event carries total = limit, no progress event and
\* no record belongs to a renderer without id, and a finished run has as many
\* progress events as records, one per renderer with id among the first limit.
C18_TotalFixedSkipsSilent ==
  /\ \A k \in ProgressIndexes :
       /\ events[k].total = limit
       /\ limit = Limit(Len(videoRenderers), MaxVideosOf(body))
       /\ videoRenderers[events[k].current] # NoId
  /\ \A k \in 1..Len(videos) : videos[k].video_id # NoId
  /\ DoneSent =>
       /\ Cardinality(ProgressIndexes) = Len(events[Len(events)].videos)
       /\ Cardinality(ProgressIndexes) =
            Cardinality({k \in 1..limit : videoRenderers[k] # NoId})

C18_Witness ==
  /\ DoneSent
  /\ limit = 3
  /\ videoRenderers[2] = NoId
  /\ Len(events) = 3
  /\ events[1].total = 3
  /\ events[2].total = 3
  /\ events[2].current = 3

\* the transcript of a record of a run that executes alone: the captions of
\* an enriched video that has captions, nothing otherwise
AloneTranscript(rec) ==
  IF rec.enriched /\ rec.video_id \in captioned THEN "captions" ELSE ""

\* C19: two concurrent runs share no state: every record of each run has
\* the transcript it would have if the run executed alone.
C19_RunsAsIfAlone ==
  \A r \in Runs : \A k \in 1..Len(run[r].videos) :
    run[r].videos[k].transcript = AloneTranscript(run[r].videos[k])

\* the turns that have their system instruction
Loaded(t) == turns[t].pc \in {"send", "stream", "model", "tool", "returned"}

\* the accumulator of a turn holds its own tool results, one per round
OwnAccumulator(t) ==
  /\ Len(accs[t]) = turns[t].round
  /\ \A k \in 1..Len(accs[t]) : accs[t][k] = [turn |-> t, n |-> k]
  /\ turns[t].pc = "returned" => turns[t].result = accs[t]

C21_SubFileRemoved ==
  \A k \in 1..Len(videos) : SubFile(0, videos[k].video_id) \notin tmpdir

\* C22: an info fetch that fails (the step ends without starting the
\* subtitle command) appends the record with its step-1 fields only.
C22_FailedInfoKeepsStep1 ==
  [][(pc = "getInfo" /\ pc' # "execFile")
       => videos' = Append(videos, Step1(videoData.video_id))]_vars

\* the record the transcript step appends
Appended == videos'[Len(videos')]

\* C23: whenever the transcript step fails, be it by a command error or
\* timeout, a missing file, a read or a parse error, the record is appended
\* with an empty transcript and its other fields as the info fetch left them.
C23_AnyFailureEmptyTranscript ==
  [][pc = "readSub" =>
       /\ Len(videos') = Len(videos) + 1
       /\ (sub.err # "ok" \/ sub.file # "text") => Appended = videoData]_vars

\* C23 (amended): the record is always appended with the fields of the info
\* fetch unchanged, and its transcript is empty unless the subtitle file
\* exists, is read and parsed and holds text, whatever the command reported.
C23_UnreadableFileEmptyTranscript ==
  [][pc = "readSub" =>
       /\ Len(videos') = Len(videos) + 1
       /\ videoData.transcript = ""
       /\ Appended = [videoData EXCEPT !.transcript = Appended.transcript]
       /\ sub.file # "text" => Appended = videoData
       /\ sub.file = "text" => Appended.transcript = "captions"]_vars

C23_Witness ==
  /\ pc = "ended"
  /\ Len(videos) = 1
  /\ SubFile(0, videos[1].video_id) \in tmpdir
  /\ videos[1].description = "desc2"
  /\ videos[1].view_count = Num(12)
  /\ videos[1].transcript = ""

\* C24: every item with an id gets its transcript step: a finished run has
\* run the subtitle command once per record.
C24_TranscriptForEveryItem ==
  DoneSent => calls["execFile"] = Len(videos)

\* the run is between the progress event of an item and its videos.push
Enriching == pc \in {"getInfo", "execFile", "readSub"}

\* C25: at most one item is being enriched: the progress events are those of
\* the finished items plus the one of the item in progress, which is the last
\* event, precedes that item's info fetch and belongs to no record yet.
C25_OneItemAtATime ==
  /\ Cardinality(ProgressIndexes) = Len(videos) + (IF Enriching THEN 1 ELSE 0)
  /\ calls["getInfo"] = Len(videos) + (IF pc \in {"execFile", "readSub"} THEN 1 ELSE 0)
  /\ Enriching =>
       /\ events[Len(events)] = ProgressEvent(i + 1, limit)
       /\ videoData.video_id = videoRenderers[i + 1]
       /\ \A k \in 1..Len(videos) : videos[k].video_id # videoData.video_id

C25_Witness ==
  /\ pc = "getInfo"
  /\ Len(videos) = 2
  /\ calls["getInfo"] = 2
  /\ calls["execFile"] = 1
  /\ Cardinality(ProgressIndexes) = 3

\* C26: in a run that ends with done the last progress event has
\* current = total and percent = 100, and there are as many progress events
\* as records.
C26_LastProgressIsTotal ==
  DoneSent =>
    /\ Len(events) >= 2
    /\ events[Len(events) - 1].type = "progress"
    /\ events[Len(events) - 1].current = events[Len(events) - 1].total
    /\ events[Len(events) - 1].percent = 100
    /\ Cardinality(ProgressIndexes) = Len(events[Len(events)].videos)

\* a count text without its thousands separators
SeparatorsStripped(v) == IF v.t = "str" THEN Str(StripCommas(v.s)) ELSE v

\* the comment count the two strategies are to give
ExpectedCommentCount(inf) ==
  IF NotNullish(inf.commentCount) THEN ParseInt(SeparatorsStripped(inf.commentCount))
  ELSE LET hits == {k \in 1..Len(inf.panels) :
                      /\ inf.panels[k].t = "str"
                      /\ ParseInt(SeparatorsStripped(inf.panels[k])).t = "num"}
       IN IF hits = {} THEN Null
          ELSE ParseInt(SeparatorsStripped(inf.panels[CHOOSE k \in hits : \A m \in hits : k <= m]))

\* C27: the comment count of an enriched record is the count of the direct
\* field when present, else of the first parseable panel header, with the
\* thousands separators stripped on either path.
C27_CommentCountStripsSeparators ==
  pc \in {"execFile", "readSub"} => videoData.comment_count = ExpectedCommentCount(info)

\* the source value is zero
IsZero(v) == ParseInt(v) = Num(0)

C29_OnlyFirstCallExecuted ==
  /\ invoked <= received
  /\ Len(toolCalls) <= invoked
  /\ Len(sent) <= invoked + 1
  /\ cpc = "tool" => call = Head(response.calls)
  /\ \A k \in 1..Len(toolCalls) : toolCalls[k].name = "f"
  /\ \A k \in 2..Len(sent) : sent[k].name = "f"

C29_Witness ==
  /\ cpc = "awaitModel"
  /\ response.calls = <<"f", "g">>
  /\ received = 1
  /\ invoked = 1
  /\ Len(toolCalls) = 1
  /\ toolCalls[1].name = "f"
  /\ Len(sent) = 2
  /\ sent[2].name = "f"

\* the number of characters delivered so far
Delivered == Len(Wire(sentEvents)) - Len(wire)

\* the frames whose data line, line feed included, is wholly delivered
LinesDelivered ==
  {k \in 1..Len(sentEvents) :
     Len(Wire(SubSeq(sentEvents, 1, k))) - 1 <= Delivered}

\* C30: however the stream is cut into chunks, the client has dispatched
\* exactly the events of the frames whose line is wholly delivered, each once
\* and in the order sent, and all of them when the stream ends.
C30_ChunkingIndependent ==
  /\ Len(dispatched) = Cardinality(LinesDelivered)
  /\ \A k \in 1..Len(dispatched) : dispatched[k] = sentEvents[k]
  /\ ui = DispatchAll(NoUi, dispatched)
  /\ rpc = "closed" => dispatched = sentEvents

\* a chunk ended inside the JSON text of the second frame: the first frame
\* is dispatched, the cut one waits in the buffer
C30_Witness ==
  /\ rpc = "read"
  /\ Len(sentEvents) = 3
  /\ dispatched = <<sentEvents[1]>>
  /\ buffer = DataPrefix \o <<"{", "p">>
  /\ ui.progress = 1

====
